---- MODULE Spec2Model ----
(***************************************************************************)
(* log-portal: a poller that mirrors a remote, HTTP-served log file to a   *)
(* console and/or a rotated local file (portal/portal.go) and sweeps old   *)
(* archives.  Strings are sequences of one-character strings; instants are *)
(* milliseconds relative to the instant Epoch in the fixed location.       *)
(***************************************************************************)
EXTENDS Integers, Sequences, FiniteSets, TLC

\* ------------------------------------------------------------------------
\* Bounds of the model
\* ------------------------------------------------------------------------
MaxSize == 2       \* largest remote size a probe reports
MaxTail == 2       \* largest Tail
MaxLifetime == 1   \* largest Lifetime, in days
MaxRot == 1        \* local rotations started by the poll loop
MaxAdvance == 2    \* clock advances
MaxSweeps == 1     \* sweeper runs

\* ------------------------------------------------------------------------
\* Strings
\* ------------------------------------------------------------------------
Alphabet == <<"-", ".", "0", "1", "2", "3", "4", "5", "6", "7", "8", "9",
              "T", "a", "b", "g", "l", "m", "o", "p", "s", "t", "u", "x", "y", "z">>

Ord(c) == CHOOSE i \in 1..Len(Alphabet) : Alphabet[i] = c

RECURSIVE StrLess(_, _)
StrLess(a, b) ==
    IF b = <<>> THEN FALSE
    ELSE IF a = <<>> THEN TRUE
    ELSE IF Head(a) # Head(b) THEN Ord(Head(a)) < Ord(Head(b))
    ELSE StrLess(Tail(a), Tail(b))

Digits == <<"0", "1", "2", "3", "4", "5", "6", "7", "8", "9">>

IsDigit(c) == \E i \in 1..10 : Digits[i] = c

DigitVal(c) == (CHOOSE i \in 1..10 : Digits[i] = c) - 1

Pad2(n) == <<Digits[((n \div 10) % 10) + 1], Digits[(n % 10) + 1]>>

Pad3(n) == <<Digits[((n \div 100) % 10) + 1]>> \o Pad2(n)

Pad4(n) == <<Digits[((n \div 1000) % 10) + 1]>> \o Pad3(n)

\* strings.Split(s, sep) for a one-character separator
RECURSIVE SplitFrom(_, _, _)
SplitFrom(s, sep, cur) ==
    IF s = <<>> THEN <<cur>>
    ELSE IF Head(s) = sep THEN <<cur>> \o SplitFrom(Tail(s), sep, <<>>)
    ELSE SplitFrom(Tail(s), sep, Append(cur, Head(s)))

Split(s, sep) == SplitFrom(s, sep, <<>>)

\* strings.SplitN(s, sep, 2): cut at the first separator only
SplitN2(s, sep) ==
    IF \E i \in 1..Len(s) : s[i] = sep
    THEN LET i == CHOOSE k \in 1..Len(s) :
                      s[k] = sep /\ \A j \in 1..(k - 1) : s[j] # sep
         IN  <<SubSeq(s, 1, i - 1), SubSeq(s, i + 1, Len(s))>>
    ELSE <<s>>

HasSuffix(s, suffix) ==
    /\ Len(s) >= Len(suffix)
    /\ SubSeq(s, Len(s) - Len(suffix) + 1, Len(s)) = suffix

DotLog == <<".", "l", "o", "g">>

\* ------------------------------------------------------------------------
\* Time: the layout "2006-01-02T15-04-05.000" in the fixed location
\* ------------------------------------------------------------------------
DayMs == 24 * 60 * 60 * 1000

Epoch == <<2024, 3, 1>>   \* instant 0 is 2024-03-01T00-00-00.000

DaysFromCivil(y, m, d) ==
    LET yy  == IF m <= 2 THEN y - 1 ELSE y
        era == yy \div 400
        yoe == yy - era * 400
        mp  == IF m > 2 THEN m - 3 ELSE m + 9
        doy == (153 * mp + 2) \div 5 + d - 1
        doe == yoe * 365 + yoe \div 4 - yoe \div 100 + doy
    IN  era * 146097 + doe - 719468

CivilFromDays(z0) ==
    LET z   == z0 + 719468
        era == z \div 146097
        doe == z - era * 146097
        yoe == (doe - doe \div 1460 + doe \div 36524 - doe \div 146096) \div 365
        doy == doe - (365 * yoe + yoe \div 4 - yoe \div 100)
        mp  == (5 * doy + 2) \div 153
        d   == doy - (153 * mp + 2) \div 5 + 1
        m   == IF mp < 10 THEN mp + 3 ELSE mp - 9
        y   == yoe + era * 400 + (IF m <= 2 THEN 1 ELSE 0)
    IN  <<y, m, d>>

EpochDays == DaysFromCivil(Epoch[1], Epoch[2], Epoch[3])

IsLeap(y) == (y % 4 = 0 /\ y % 100 # 0) \/ y % 400 = 0

DaysIn(m, y) ==
    IF m = 2 THEN (IF IsLeap(y) THEN 29 ELSE 28)
    ELSE IF m \in {4, 6, 9, 11} THEN 30 ELSE 31

\* time.Time.Format(timeLayout): 23 characters, every field zero-padded
FormatTime(t) ==
    LET date == CivilFromDays(EpochDays + t \div DayMs)
        r    == t % DayMs
    IN  Pad4(date[1]) \o <<"-">> \o Pad2(date[2]) \o <<"-">> \o Pad2(date[3])
        \o <<"T">> \o Pad2(r \div 3600000) \o <<"-">> \o Pad2((r \div 60000) % 60)
        \o <<"-">> \o Pad2((r \div 1000) % 60) \o <<".">> \o Pad3(r % 1000)

RECURSIVE NumVal(_)
NumVal(s) == IF s = <<>> THEN 0 ELSE NumVal(SubSeq(s, 1, Len(s) - 1)) * 10 + DigitVal(s[Len(s)])

AllDigits(s) == \A i \in 1..Len(s) : IsDigit(s[i])

NoTime == [ok |-> FALSE, t |-> 0]

\* time.ParseInLocation(timeLayout, s, location): the year is four digits,
\* month, day, minute and second are two digits, the hour ("15") is one or
\* two digits, the fraction is a point and exactly three digits, and no text
\* may follow; every field is range-checked.
ParseTime(s) ==
    IF Len(s) < 12 \/ ~AllDigits(SubSeq(s, 1, 4)) \/ s[5] # "-"
       \/ ~AllDigits(SubSeq(s, 6, 7)) \/ s[8] # "-"
       \/ ~AllDigits(SubSeq(s, 9, 10)) \/ s[11] # "T" \/ ~IsDigit(s[12])
    THEN NoTime
    ELSE
    LET hl   == IF Len(s) >= 13 /\ IsDigit(s[13]) THEN 2 ELSE 1
        rest == SubSeq(s, 12 + hl, Len(s))    \* "-04-05.000"
        y    == NumVal(SubSeq(s, 1, 4))
        m    == NumVal(SubSeq(s, 6, 7))
        d    == NumVal(SubSeq(s, 9, 10))
        h    == NumVal(SubSeq(s, 12, 11 + hl))
    IN  IF Len(rest) # 10 \/ rest[1] # "-" \/ ~AllDigits(SubSeq(rest, 2, 3))
           \/ rest[4] # "-" \/ ~AllDigits(SubSeq(rest, 5, 6)) \/ rest[7] # "."
           \/ ~AllDigits(SubSeq(rest, 8, 10))
        THEN NoTime
        ELSE
        LET mi == NumVal(SubSeq(rest, 2, 3))
            sc == NumVal(SubSeq(rest, 5, 6))
            ms == NumVal(SubSeq(rest, 8, 10))
        IN  IF m < 1 \/ m > 12 \/ d < 1 \/ d > DaysIn(m, y) \/ h >= 24
               \/ mi >= 60 \/ sc >= 60
            THEN NoTime
            ELSE [ok |-> TRUE,
                  t  |-> (DaysFromCivil(y, m, d) - EpochDays) * DayMs
                         + h * 3600000 + mi * 60000 + sc * 1000 + ms]

\* ------------------------------------------------------------------------
\* Session state (type Portal), local files and the environment
\* ------------------------------------------------------------------------
VARIABLES
    TailBytes,      \* Portal.Tail
    Lifetime,       \* Portal.Lifetime (days)
    ConsolePortal,  \* Portal.ConsolePortal
    FilePortal,     \* Portal.FilePortal
    filename,       \* Portal.filename, the last segment of the URL
    offset,         \* Portal.offset
    file,           \* Portal.file: index into fds, 0 for nil
    writer,         \* Portal.writer: the sinks of the MultiWriter, in order
    fds,            \* every os.File opened so far: [ino, open]
    fs,             \* directory entries: [dir, name, ino]
    cwdIsDir,       \* the working directory of the process is Portal.Dir
    now,            \* the clock, ms since Epoch
    advances,       \* clock advances so far
    pc,             \* position of the Start goroutine
    tickPending,    \* p.ticker.C (capacity 1) holds a fire
    currSize,       \* Start's local currSize
    req,            \* the ranged read in flight: <<start, end>>
    hdr,            \* its Range header: <<first byte, last byte>>
    rotErr,         \* RotateFile's pending return value in the poll loop
    nRot,           \* rotations started by the poll loop
    spc,            \* position of the sweeper goroutine
    queue,          \* entries WalkDir still has to visit
    sweeps,         \* sweeper runs started
    fpc,            \* position of Finalize in the main goroutine
    stopped,        \* p.ticker.Stop() has been called
    tk,             \* history: what the current (last) tick has done
    ini,            \* history: how initialFetch ended
    prev,           \* history: the tick before tk
    seenPos,        \* history: a steady tick before tk observed a size > 0
    lastRename,     \* history: the last os.Rename of RotateFile
    renames,        \* history: every os.Rename of RotateFile that succeeded
    run,            \* history: what the poll loop has met and asked for so far
    kept,           \* history: fires p.ticker.C has taken since the last tick began
    cl              \* history: the current (last) Clean run, and every removal so far

config == <<TailBytes, Lifetime, ConsolePortal, FilePortal, filename, cwdIsDir>>
session == <<offset, file, writer, fds>>
pollv == <<pc, tickPending, currSize, req, hdr, rotErr, nRot>>
sweepv == <<spc, queue, sweeps>>
clockv == <<now, advances>>
shutv == <<fpc, stopped>>
histv == <<tk, ini, prev, seenPos, lastRename, cl>>
hist2v == <<renames, run, kept>>
vars == <<config, session, fs, pollv, sweepv, clockv, shutv, histv, hist2v>>

Stdout == [console |-> TRUE, fd |-> 0]      \* os.Stdout as a sink

FileSink(h) == [console |-> FALSE, fd |-> h]   \* an *os.File as a sink

SubDir == <<"s", "u", "b">>   \* a directory inside Dir

FileNames ==
    { <<"a", "p", "p", ".", "l", "o", "g">>,            \* app.log
      <<"a", "p", "p">>,                                \* app
      <<"a", ".", "b", ".", "l", "o", "g">>,            \* a.b.log
      <<"m", "y", "-", "a", "p", "p", ".", "l", "o", "g">> }   \* my-app.log

\* (mutant) the extension stripped at the first dot of any dotted filename
ArchivedFilenameFirstDot(fn, t) ==
    LET fields == Split(fn, ".")
        prefix == IF Len(fields) >= 2 THEN fields[1] ELSE fn
    IN  prefix \o <<"-">> \o FormatTime(t) \o DotLog

\* RotateFile's archive name for the live filename fn at instant t
ArchivedFilename(fn, t) ==
    LET fields == Split(fn, ".")
        prefix == IF Len(fields) = 2 THEN fields[1] ELSE fn
    IN  prefix \o <<"-">> \o FormatTime(t) \o DotLog

\* (mutant) match without the age test
matchNoAge(name, t, lifetime) ==
    LET fields1 == SplitN2(name, "-")
    IN  IF Len(fields1) # 2 THEN FALSE
        ELSE LET fn == fields1[2]
             IN  IF ~HasSuffix(fn, DotLog) THEN FALSE
                 ELSE ParseTime(SubSeq(fn, 1, Len(fn) - Len(DotLog))).ok

\* Clean's match closure
match(name, t, lifetime) ==
    LET fields1 == SplitN2(name, "-")
    IN  IF Len(fields1) # 2 THEN FALSE
        ELSE LET fn == fields1[2]
             IN  IF ~HasSuffix(fn, DotLog) THEN FALSE
                 ELSE LET prefix == SubSeq(fn, 1, Len(fn) - Len(DotLog))
                          p == ParseTime(prefix)
                      IN  IF ~p.ok THEN FALSE
                          ELSE IF t - p.t < lifetime * 24 * 60 * 60 * 1000 THEN FALSE
                          ELSE TRUE

\* What the mirror directory, its subdirectory and the working directory
\* hold when the session starts (inode 1 is the live file).
OldStamp == FormatTime(0 - 2 * DayMs)

InitialFiles(fn, sameCwd) ==
    { [dir |-> "Dir", name |-> fn, ino |-> 1],
      [dir |-> "Dir", name |-> ArchivedFilename(fn, 0 - 2 * DayMs), ino |-> 2],
      [dir |-> "Dir", name |-> ArchivedFilename(fn, 0 - 1), ino |-> 3],
      [dir |-> "Dir", name |-> <<"x", "-", "o", "l", "d">> \o DotLog, ino |-> 4],
      [dir |-> "Dir", name |-> <<"b", ".", "t", "x", "t">>, ino |-> 5],
      [dir |-> "Dir", name |-> <<"y", "-">> \o SubSeq(OldStamp, 1, 11) \o <<"5">>
                               \o SubSeq(OldStamp, 14, 23) \o DotLog, ino |-> 6],
      [dir |-> "Sub", name |-> <<"z", "-">> \o FormatTime(0 - DayMs \div 2) \o DotLog,
       ino |-> 7] }
    \cup (IF sameCwd THEN {}
          ELSE { [dir |-> "Cwd", name |-> ArchivedFilename(fn, 0 - 2 * DayMs), ino |-> 8] })

\* a mirror directory that holds the live file and two of its archives only
FewFiles(fn) ==
    { [dir |-> "Dir", name |-> fn, ino |-> 1],
      [dir |-> "Dir", name |-> ArchivedFilename(fn, 0 - 2 * DayMs), ino |-> 2],
      [dir |-> "Dir", name |-> ArchivedFilename(fn, 0 - 1), ino |-> 3] }

NoTick == [kind |-> "none", probeOK |-> FALSE, size |-> 0, off0 |-> 0,
           reads |-> <<>>, rots |-> 0, wrote |-> FALSE, fetchOK |-> FALSE, got |-> 0,
           rotFailed |-> FALSE, rotAt |-> "", file0 |-> 0, writer0 |-> <<>>,
           firstPos |-> FALSE, done |-> FALSE]

NoPrev == [kind |-> "none", probeOK |-> FALSE, size |-> 0, readFailed |-> FALSE, offEnd |-> 0]

NoRename == [from |-> <<>>, to |-> <<>>, at |-> 0]

\* rotFailed: a RotateFile called by the loop returned an error.  clean: no
\* probe and no ranged read has failed and no probe has returned less than
\* the probe before it; asked: the byte positions the ranged reads have asked
\* for, dup: one of them was asked for twice (both kept while clean only).
NoRun == [rotFailed |-> FALSE, clean |-> TRUE, asked |-> {}, dup |-> FALSE]

NoClean == [t0 |-> 0, listed |-> {}, removed |-> {}, refused |-> {}, err |-> FALSE,
            done |-> FALSE, errs |-> 0]

\* New() + Init() + SetupWriter(): the states main hands to Start
Init ==
    /\ TailBytes \in 0..MaxTail
    /\ Lifetime \in 0..MaxLifetime
    /\ ConsolePortal \in BOOLEAN
    /\ FilePortal \in BOOLEAN
    /\ ConsolePortal \/ FilePortal
    /\ filename \in FileNames
    /\ cwdIsDir \in BOOLEAN
    /\ FilePortal = FALSE => (cwdIsDir = TRUE /\ Lifetime = 0)
    /\ offset = 0
    /\ file = IF FilePortal THEN 1 ELSE 0
    /\ fds = IF FilePortal THEN <<[ino |-> 1, open |-> TRUE]>> ELSE <<>>
    /\ writer = (IF ConsolePortal THEN <<Stdout>> ELSE <<>>)
                \o (IF FilePortal THEN <<FileSink(1)>> ELSE <<>>)
    /\ fs \in IF FilePortal THEN {InitialFiles(filename, cwdIsDir), FewFiles(filename)}
               ELSE {{}}
    /\ now = 0
    /\ advances = 0
    /\ pc = "initial"
    /\ tickPending = FALSE
    /\ currSize = 0
    /\ req = <<0, 0>>
    /\ hdr = <<0, 0>>
    /\ rotErr = FALSE
    /\ nRot = 0
    /\ spc = "idle"
    /\ queue = <<>>
    /\ sweeps = 0
    /\ fpc = "none"
    /\ stopped = FALSE
    /\ renames = <<>>
    /\ run = NoRun
    /\ kept = 0
    /\ tk = NoTick
    /\ ini = "none"
    /\ prev = NoPrev
    /\ seenPos = FALSE
    /\ lastRename = NoRename
    /\ cl = NoClean

\* ------------------------------------------------------------------------
\* RangeFetcher
\* ------------------------------------------------------------------------
\* LogSize(): what a HEAD probe can return.  A response without a usable
\* Content-Length reports -1.
LogSize ==
    {[ok |-> FALSE, size |-> 0]} \cup {[ok |-> TRUE, size |-> n] : n \in (0 - 1)..MaxSize}

SinkOpen(s) == s.console \/ fds[s.fd].open

\* (mutant) the Range header with the exclusive end as its last byte
RangeHeaderExclusive(start, end) == <<start, end>>

\* FetchIncrContent's `bytes=%d-%d` header: first and last byte, inclusive
RangeHeader(start, end) == <<start, end - 1>>

\* The lengths of the body a 206 can carry for the header h: the server cuts
\* a last byte beyond the file's current end down to that end, so the body
\* holds the declared range or a shorter, non-empty head of it.
BodyLengths(h) == 1..(h[2] - h[1] + 1)

\* FetchIncrContent(start, end): how the ranged read in flight can end.  A
\* transport error or a status other than 206 writes nothing; 206 answers a
\* range that holds a byte, never `bytes=start-(start-1)`.  io.Copy hands
\* the body to the sinks in the writer's order and stops at the first sink
\* that fails (a closed file always fails), or when reading the body fails;
\* it does not compare the length of the body with end - start.  `n` is the
\* number of bytes every sink has received when the call returns nil.
FetchIncrContent(start, end) ==
    LET upTo(k) == {writer[i] : i \in 1..k}
        h == RangeHeader(start, end)
    IN  {[ok |-> FALSE, why |-> "transport", wrote |-> {}, n |-> 0],
         [ok |-> FALSE, why |-> "status", wrote |-> {}, n |-> 0]}
        \cup (IF h[2] >= h[1]
              THEN {[ok |-> FALSE, why |-> "copy", wrote |-> upTo(k), n |-> 0] :
                      k \in {j \in 0..Len(writer) : \A i \in 1..j : SinkOpen(writer[i])}}
                   \cup (IF \A i \in 1..Len(writer) : SinkOpen(writer[i])
                         THEN {[ok |-> TRUE, why |-> "", wrote |-> upTo(Len(writer)), n |-> b] :
                                 b \in BodyLengths(h)}
                         ELSE {})
              ELSE {})

\* ------------------------------------------------------------------------
\* Start: the initial fetch
\* ------------------------------------------------------------------------
\* the history `run` after a probe r and, if rd is not <<>>, the ranged read rd
Positions(rd) == IF rd = <<>> THEN {} ELSE rd[1]..(rd[2] - 1)

AfterProbe(r, rd) ==
    IF run.clean /\ r.ok /\ (tk.kind = "none" \/ r.size >= tk.size)
    THEN [run EXCEPT !.asked = @ \cup Positions(rd),
                     !.dup = @ \/ (run.asked \cap Positions(rd) # {})]
    ELSE [run EXCEPT !.clean = FALSE, !.asked = {}, !.dup = FALSE]

\* the history `run` after a ranged read returned
AfterRead(ok) ==
    IF ok THEN run ELSE [run EXCEPT !.clean = FALSE, !.asked = {}, !.dup = FALSE]

BeginTick(kind, r) ==
    [NoTick EXCEPT !.kind = kind, !.probeOK = r.ok, !.size = r.size, !.off0 = offset,
                   !.file0 = file, !.writer0 = writer]

\* (mutant) initialFetch without the `currSize < p.Tail` skip
InitialBranchNoTailSkip(r) ==
    IF ~r.ok THEN "fail"
    ELSE IF r.size = 0 THEN "skip"
    ELSE "fetch"

\* initialFetch's way after the probe r
InitialBranch(r) ==
    IF ~r.ok THEN "fail"
    ELSE IF r.size = 0 THEN "skip"
    ELSE IF r.size < TailBytes THEN "skip"
    ELSE "fetch"

\* initialFetch up to the ranged read: the probe, the two skips, the range
InitialProbe ==
    /\ pc = "initial"
    /\ \E r \in LogSize :
         IF InitialBranch(r) # "fetch"
         THEN /\ pc' = "wait"
              /\ tk' = [BeginTick("initial", r) EXCEPT !.done = TRUE]
              /\ ini' = IF r.ok THEN "skipped" ELSE "failed"
              /\ req' = req
              /\ hdr' = hdr
              /\ run' = AfterProbe(r, <<>>)
         ELSE /\ pc' = "initfetch"
              /\ req' = <<r.size - TailBytes, r.size>>
              /\ hdr' = RangeHeader(req'[1], req'[2])
              /\ run' = AfterProbe(r, req')
              /\ tk' = [BeginTick("initial", r) EXCEPT !.reads = <<req'>>]
              /\ ini' = ini
    /\ currSize' = 0
    /\ UNCHANGED <<config, shutv, renames, kept, session, fs, tickPending, rotErr, nRot, sweepv,
                   clockv, prev, seenPos, lastRename, cl>>

\* Start's `currSize, getErr = p.initialFetch()`: what the session keeps of it
OffsetAfterInitial(ok, size) == offset

\* the ranged read of initialFetch returns; Start keeps the result in currSize
InitialFetchDone ==
    /\ pc = "initfetch"
    /\ \E res \in FetchIncrContent(req[1], req[2]) :
         /\ currSize' = IF res.ok THEN req[2] ELSE 0
         /\ offset' = OffsetAfterInitial(res.ok, req[2])
         /\ tk' = [tk EXCEPT !.fetchOK = res.ok, !.wrote = (res.wrote # {}), !.got = res.n,
                              !.done = TRUE]
         /\ ini' = IF res.ok THEN "fetched" ELSE "failed"
         /\ run' = AfterRead(res.ok)
    /\ pc' = "wait"
    /\ UNCHANGED <<config, shutv, renames, kept, hdr, file, writer, fds, fs, tickPending, req, rotErr, nRot, sweepv, clockv,
                   prev, seenPos, lastRename, cl>>

\* ------------------------------------------------------------------------
\* Start: the ticker and the steady ticks
\* ------------------------------------------------------------------------
\* (mutant) a ticker whose channel queues every fire
TickerAcceptsAlways(pending) == TRUE

\* the ticker's send on p.ticker.C, a channel of capacity 1, never blocks:
\* it succeeds when the channel is empty and is given up when it holds a fire
TickerAccepts(pending) == ~pending

\* p.ticker fires: the channel takes the fire or the fire is lost
TimerFire ==
    /\ ~stopped
    /\ tickPending' = (tickPending \/ TickerAccepts(tickPending))
    /\ kept' = IF TickerAccepts(tickPending) THEN kept + 1 ELSE kept
    /\ UNCHANGED <<config, shutv, renames, run, hdr, session, fs, pc, currSize, req, rotErr, nRot,
                   sweepv, clockv, histv>>

\* (mutant) a steady tick that fetches on `currSize >= p.offset`
TickBranchRefetch(r) ==
    IF ~r.ok THEN "skip"
    ELSE IF r.size >= offset THEN "fetch"
    ELSE "rotate"

\* (mutant) a steady tick that goes on with the 0 LogSize returns with an error
TickBranchIgnoreErr(r) ==
    IF r.size > offset THEN "fetch"
    ELSE IF r.size < offset THEN "rotate"
    ELSE "noop"

\* the way a steady tick takes after the probe r
TickBranch(r) ==
    IF ~r.ok THEN "skip"
    ELSE IF r.size > offset THEN "fetch"
    ELSE IF r.size < offset THEN "rotate"
    ELSE "noop"

\* `for range p.ticker.C`: take the fire, probe, and branch on the size
TickProbe ==
    /\ pc = "wait"
    /\ tickPending
    /\ tickPending' = FALSE
    /\ kept' = 0
    /\ prev' = [kind |-> tk.kind, probeOK |-> tk.probeOK, size |-> tk.size,
                 readFailed |-> (tk.reads # <<>> /\ ~tk.fetchOK), offEnd |-> offset]
    /\ \E r \in LogSize :
         /\ currSize' = r.size
         /\ seenPos' = (seenPos \/ (r.ok /\ r.size > 0))
         /\ LET t0 == [BeginTick("steady", r) EXCEPT
                          !.firstPos = (~seenPos /\ r.ok /\ r.size > 0)]
            IN  IF TickBranch(r) = "fetch"
                THEN /\ pc' = "fetch"
                     /\ req' = <<offset, r.size>>
                     /\ hdr' = RangeHeader(req'[1], req'[2])
                     /\ tk' = [t0 EXCEPT !.reads = <<req'>>]
                     /\ run' = AfterProbe(r, req')
                     /\ UNCHANGED nRot
                ELSE IF TickBranch(r) = "rotate"
                THEN /\ nRot < MaxRot
                     /\ nRot' = nRot + 1
                     /\ pc' = "rot_sync"
                     /\ tk' = t0
                     /\ run' = AfterProbe(r, <<>>)
                     /\ UNCHANGED <<req, hdr>>
                ELSE /\ pc' = "wait"
                     /\ tk' = [t0 EXCEPT !.done = TRUE]
                     /\ run' = AfterProbe(r, <<>>)
                     /\ UNCHANGED <<req, hdr, nRot>>
    /\ UNCHANGED <<config, shutv, renames, session, fs, rotErr, sweepv, clockv, ini,
                   lastRename, cl>>

\* (mutant) the offset committed whether or not the read succeeded
OffsetAfterFetchAlways(ok) == currSize

\* Start after FetchIncrContent returned: commit the offset on success
OffsetAfterFetch(ok) == IF ok THEN currSize ELSE offset

\* the ranged read of a steady tick returns
FetchDone ==
    /\ pc = "fetch"
    /\ \E res \in FetchIncrContent(req[1], req[2]) :
         /\ offset' = OffsetAfterFetch(res.ok)
         /\ tk' = [tk EXCEPT !.fetchOK = res.ok, !.wrote = (res.wrote # {}), !.got = res.n,
                              !.done = TRUE]
         /\ run' = AfterRead(res.ok)
    /\ pc' = "wait"
    /\ UNCHANGED <<config, shutv, renames, kept, hdr, file, writer, fds, fs, tickPending, currSize, req, rotErr, nRot,
                   sweepv, clockv, ini, prev, seenPos, lastRename, cl>>

\* ------------------------------------------------------------------------
\* RotationManager: RotateFile, in the steps another goroutine can observe
\* ------------------------------------------------------------------------
LivePath == {e \in fs : e.dir = "Dir" /\ e.name = filename}

RECURSIVE MaxOf(_)
MaxOf(S) == IF S = {} THEN 0
            ELSE LET x == CHOOSE y \in S : TRUE
                     m == MaxOf(S \ {x})
                 IN  IF x > m THEN x ELSE m

NewIno == 1 + MaxOf({e.ino : e \in fs} \cup {fds[i].ino : i \in 1..Len(fds)})

\* RotateFile: the FilePortal test, file.Sync() and file.Close()
RotateSyncClose ==
    /\ pc = "rot_sync"
    /\ IF ~FilePortal
       THEN /\ pc' = "rot_ret"
            /\ rotErr' = FALSE
            /\ fds' = fds
            /\ tk' = [tk EXCEPT !.rots = @ + 1, !.rotAt = "off"]
       ELSE \E syncFails, closeFails \in BOOLEAN :
              IF syncFails \/ ~fds[file].open
              THEN /\ pc' = "rot_ret"
                   /\ rotErr' = TRUE
                   /\ fds' = fds
                   /\ tk' = [tk EXCEPT !.rots = @ + 1, !.rotAt = "sync"]
              ELSE /\ fds' = [fds EXCEPT ![file].open = FALSE]
                   /\ IF closeFails
                      THEN pc' = "rot_ret" /\ rotErr' = TRUE
                      ELSE pc' = "rot_rename" /\ rotErr' = FALSE
                   /\ tk' = [tk EXCEPT !.rots = @ + 1,
                                        !.rotAt = IF closeFails THEN "close" ELSE ""]
    /\ UNCHANGED <<config, shutv, hist2v, hdr, offset, file, writer, fs, tickPending, currSize, req, nRot,
                   sweepv, clockv, ini, prev, seenPos, lastRename, cl>>

\* RotateFile: the archive name from time.Now() and os.Rename(path, archivedPath)
RotateRename ==
    /\ pc = "rot_rename"
    /\ LET target == ArchivedFilename(filename, now)
       IN  \E renameFails \in BOOLEAN :
             IF renameFails \/ LivePath = {}
             THEN /\ pc' = "rot_ret"
                  /\ rotErr' = TRUE
                  /\ tk' = [tk EXCEPT !.rotAt = "rename"]
                  /\ UNCHANGED <<fs, lastRename, renames>>
             ELSE /\ fs' = {e \in fs : ~(e.dir = "Dir" /\ e.name \in {filename, target})}
                           \cup {[dir |-> "Dir", name |-> target, ino |-> e.ino] : e \in LivePath}
                  /\ lastRename' = [from |-> filename, to |-> target, at |-> now]
                  /\ renames' = Append(renames, [to |-> target,
                                                      ino |-> (CHOOSE e \in LivePath : TRUE).ino])
                  /\ pc' = "rot_open"
                  /\ rotErr' = FALSE
                  /\ tk' = tk
    /\ UNCHANGED <<config, shutv, run, kept, hdr, session, tickPending, currSize, req, nRot, sweepv, clockv,
                   ini, prev, seenPos, cl>>

\* RotateFile: os.OpenFile(path, O_CREATE|O_APPEND|O_RDWR), p.file and p.writer
RotateOpen ==
    /\ pc = "rot_open"
    /\ \E openFails \in BOOLEAN :
         IF openFails
         THEN /\ rotErr' = TRUE
              /\ tk' = [tk EXCEPT !.rotAt = "open"]
              /\ UNCHANGED <<file, writer, fds, fs>>
         ELSE /\ rotErr' = FALSE
              /\ tk' = [tk EXCEPT !.rotAt = "ok"]
              /\ LET ino == IF LivePath = {} THEN NewIno
                            ELSE (CHOOSE e \in LivePath : TRUE).ino
                 IN  /\ fs' = fs \cup {[dir |-> "Dir", name |-> filename, ino |-> ino]}
                     /\ fds' = Append(fds, [ino |-> ino, open |-> TRUE])
              /\ file' = Len(fds) + 1
              /\ writer' = <<FileSink(file')>> \o (IF ConsolePortal THEN <<Stdout>> ELSE <<>>)
    /\ pc' = "rot_ret"
    /\ UNCHANGED <<config, shutv, hist2v, hdr, offset, tickPending, currSize, req, nRot, sweepv, clockv,
                   ini, prev, seenPos, lastRename, cl>>

\* (mutant) the offset reset only when RotateFile succeeded
OffsetAfterRotateOnSuccess(err) == IF err THEN offset ELSE 0

\* (mutant) the probed size taken as the new baseline
OffsetAfterRotateToSize(err) == currSize

\* Start after RotateFile returned err: the offset of the new generation
OffsetAfterRotate(err) == 0

\* Start, after RotateFile returned: log the error, if any, and reset offset
RotateReturn ==
    /\ pc = "rot_ret"
    /\ offset' = OffsetAfterRotate(rotErr)
    /\ pc' = "wait"
    /\ rotErr' = FALSE
    /\ tk' = [tk EXCEPT !.rotFailed = rotErr, !.done = TRUE]
    /\ run' = [run EXCEPT !.rotFailed = @ \/ rotErr]
    /\ UNCHANGED <<config, shutv, renames, kept, hdr, file, writer, fds, fs, tickPending, currSize, req, nRot,
                   sweepv, clockv, ini, prev, seenPos, lastRename, cl>>

\* ------------------------------------------------------------------------
\* Finalize, called by main when a signal arrives, while Start may be in a
\* tick; p.file and p.writer are shared without a lock
\* ------------------------------------------------------------------------
\* Finalize's RotateFile: the FilePortal test, file.Sync() and file.Close();
\* whatever RotateFile returns, Finalize goes on (`_ = p.RotateFile()`)
FinalizeSyncClose ==
    /\ fpc = "none"
    /\ IF ~FilePortal
       THEN /\ fpc' = "fin_close"
            /\ fds' = fds
       ELSE \E syncFails, closeFails \in BOOLEAN :
              IF syncFails \/ ~fds[file].open
              THEN /\ fpc' = "fin_close"
                   /\ fds' = fds
              ELSE /\ fds' = [fds EXCEPT ![file].open = FALSE]
                   /\ fpc' = IF closeFails THEN "fin_close" ELSE "fin_rename"
    /\ UNCHANGED <<config, offset, file, writer, fs, pollv, sweepv, clockv, stopped,
                   histv, hist2v>>

\* Finalize's RotateFile: the archive name and os.Rename(path, archivedPath)
FinalizeRename ==
    /\ fpc = "fin_rename"
    /\ LET target == ArchivedFilename(filename, now)
       IN  \E renameFails \in BOOLEAN :
             IF renameFails \/ LivePath = {}
             THEN /\ fpc' = "fin_close"
                  /\ UNCHANGED <<fs, lastRename, renames>>
             ELSE /\ fs' = {e \in fs : ~(e.dir = "Dir" /\ e.name \in {filename, target})}
                           \cup {[dir |-> "Dir", name |-> target, ino |-> e.ino] : e \in LivePath}
                  /\ lastRename' = [from |-> filename, to |-> target, at |-> now]
                  /\ renames' = Append(renames, [to |-> target,
                                                  ino |-> (CHOOSE e \in LivePath : TRUE).ino])
                  /\ fpc' = "fin_open"
    /\ UNCHANGED <<config, session, pollv, sweepv, clockv, stopped, run, kept,
                   tk, ini, prev, seenPos, cl>>

\* Finalize's RotateFile: os.OpenFile(path, ...), p.file and p.writer
FinalizeOpen ==
    /\ fpc = "fin_open"
    /\ \E openFails \in BOOLEAN :
         IF openFails
         THEN UNCHANGED <<file, writer, fds, fs>>
         ELSE /\ LET ino == IF LivePath = {} THEN NewIno
                            ELSE (CHOOSE e \in LivePath : TRUE).ino
                 IN  /\ fs' = fs \cup {[dir |-> "Dir", name |-> filename, ino |-> ino]}
                     /\ fds' = Append(fds, [ino |-> ino, open |-> TRUE])
              /\ file' = Len(fds) + 1
              /\ writer' = <<FileSink(file')>> \o (IF ConsolePortal THEN <<Stdout>> ELSE <<>>)
    /\ fpc' = "fin_close"
    /\ UNCHANGED <<config, offset, pollv, sweepv, clockv, stopped, histv, hist2v>>

\* Finalize: `_ = p.file.Sync()` and `_ = p.file.Close()` on the handle p.file
\* names now; on a nil or closed handle both return an error, which is dropped
FinalizeClose ==
    /\ fpc = "fin_close"
    /\ fds' = IF file # 0 /\ fds[file].open THEN [fds EXCEPT ![file].open = FALSE] ELSE fds
    /\ fpc' = "fin_stop"
    /\ UNCHANGED <<config, offset, file, writer, fs, pollv, sweepv, clockv, stopped,
                   histv, hist2v>>

\* Finalize: p.ticker.Stop(); a fire already in the channel stays there
FinalizeStop ==
    /\ fpc = "fin_stop"
    /\ stopped' = TRUE
    /\ fpc' = "done"
    /\ UNCHANGED <<config, session, fs, pollv, sweepv, clockv, histv, hist2v>>

\* ------------------------------------------------------------------------
\* RetentionSweeper: Clean, one directory entry at a time
\* ------------------------------------------------------------------------
RECURSIVE SortNames(_)
SortNames(S) ==
    IF S = {} THEN <<>>
    ELSE LET least == CHOOSE x \in S : \A y \in S \ {x} : StrLess(x, y)
         IN  <<least>> \o SortNames(S \ {least})

\* os.ReadDir of the root (which holds the directory SubDir) or of SubDir
ReadDir(dir) ==
    LET names == {e.name : e \in {f \in fs : f.dir = dir}}
                 \cup (IF dir = "Dir" THEN {SubDir} ELSE {})
        sorted == SortNames(names)
    IN  [i \in 1..Len(sorted) |->
            [name |-> sorted[i], isDir |-> (dir = "Dir" /\ sorted[i] = SubDir)]]

\* (mutant) a sweeper goroutine that returns when Clean fails
AfterCleanStopOnError(err) == IF err THEN "stopped" ELSE "idle"

\* `for range ticker.C { _ = p.Clean() }`: where the sweeper goroutine goes
\* when Clean has returned err
AfterClean(err) == "idle"

\* the sweeper's ticker fires: Clean starts to walk p.Dir
CleanBegin ==
    /\ FilePortal
    /\ spc = "idle"
    /\ sweeps < MaxSweeps
    /\ sweeps' = sweeps + 1
    /\ spc' = "walk"
    /\ queue' = ReadDir("Dir")
    /\ cl' = [NoClean EXCEPT !.t0 = now, !.removed = cl.removed, !.errs = cl.errs,
                             !.listed = {e.name : e \in {f \in fs : f.dir = "Dir"}}]
    /\ UNCHANGED <<config, shutv, hist2v, session, fs, pollv, clockv, tk, ini, prev, seenPos, lastRename>>

\* the WalkDir callback on the next entry
CleanVisit ==
    /\ spc = "walk"
    /\ queue # <<>>
    /\ LET d == Head(queue)
           cwd == IF cwdIsDir THEN "Dir" ELSE "Cwd"
           target == {e \in fs : e.dir = cwd /\ e.name = d.name}
       IN  IF d.isDir
           THEN /\ queue' = ReadDir("Sub") \o Tail(queue)
                /\ UNCHANGED <<fs, spc, cl>>
           ELSE IF d.name = filename \/ ~match(d.name, now, Lifetime)
           THEN /\ queue' = Tail(queue)
                /\ UNCHANGED <<fs, spc, cl>>
           ELSE \E removeFails \in BOOLEAN :
                  IF removeFails \/ target = {}
                  THEN /\ queue' = <<>>
                       /\ spc' = AfterClean(TRUE)
                       /\ cl' = [cl EXCEPT !.err = TRUE, !.done = TRUE, !.errs = @ + 1,
                                           !.refused = IF target = {} THEN @
                                                       ELSE @ \cup {[dir |-> cwd, name |-> d.name]}]
                       /\ fs' = fs
                  ELSE /\ queue' = Tail(queue)
                       /\ fs' = fs \ target
                       /\ cl' = [cl EXCEPT !.removed = @ \cup
                                    {[dir |-> cwd, name |-> d.name, at |-> now]}]
                       /\ spc' = spc
    /\ UNCHANGED <<config, shutv, hist2v, session, pollv, sweeps, clockv, tk, ini, prev, seenPos, lastRename>>

\* WalkDir has visited every entry: Clean returns nil
CleanEnd ==
    /\ spc = "walk"
    /\ queue = <<>>
    /\ spc' = AfterClean(FALSE)
    /\ cl' = [cl EXCEPT !.done = TRUE]
    /\ UNCHANGED <<config, shutv, hist2v, session, fs, pollv, queue, sweeps, clockv,
                   tk, ini, prev, seenPos, lastRename>>

\* ------------------------------------------------------------------------
\* The clock
\* ------------------------------------------------------------------------
AdvanceTime ==
    /\ advances < MaxAdvance
    /\ advances' = advances + 1
    /\ \E d \in {1, DayMs \div 2} : now' = now + d
    /\ UNCHANGED <<config, shutv, hist2v, session, fs, pollv, sweepv, histv>>

\* The whole program: the Start goroutine, the sweeper goroutine, the clock
Next ==
    \/ InitialProbe
    \/ InitialFetchDone
    \/ TimerFire
    \/ TickProbe
    \/ FetchDone
    \/ RotateSyncClose
    \/ RotateRename
    \/ RotateOpen
    \/ RotateReturn
    \/ CleanBegin
    \/ CleanVisit
    \/ CleanEnd
    \/ AdvanceTime
    \/ FinalizeSyncClose
    \/ FinalizeRename
    \/ FinalizeOpen
    \/ FinalizeClose
    \/ FinalizeStop

Spec == Init /\ [][Next]_vars

\* The Start goroutine alone, the clock standing still.  The sweeper's inputs
\* (Lifetime, the working directory) are read by no action here and are fixed.
NextPoll ==
    \/ InitialProbe
    \/ InitialFetchDone
    \/ TimerFire
    \/ TickProbe
    \/ FetchDone
    \/ RotateSyncClose
    \/ RotateRename
    \/ RotateOpen
    \/ RotateReturn

ManyFiles == FilePortal => fs = InitialFiles(filename, cwdIsDir)

InitPoll == Init /\ Lifetime = 0 /\ cwdIsDir /\ ManyFiles

SpecPoll == InitPoll /\ [][NextPoll]_vars

\* The Start goroutine of a session that mirrors to a file only, with the
\* clock running: the archive names of RotateFile.  RotateRename alone reads
\* the clock here, so the clock moves right before it.
NextRotate ==
    \/ NextPoll
    \/ (pc = "rot_rename" /\ AdvanceTime)

InitRotate == InitPoll /\ FilePortal /\ ~ConsolePortal /\ TailBytes = 0

SpecRotate == InitRotate /\ [][NextRotate]_vars

\* The Start goroutine and Finalize, racing, in a session that mirrors to a
\* file; the clock moves right before the two places that read it.
NextShutdown ==
    \/ NextPoll
    \/ FinalizeSyncClose
    \/ FinalizeRename
    \/ FinalizeOpen
    \/ FinalizeClose
    \/ FinalizeStop
    \/ ((pc = "rot_rename" \/ fpc = "fin_rename") /\ AdvanceTime)

InitShutdown ==
    InitPoll /\ FilePortal /\ TailBytes = 0 /\ filename = <<"a", "p", "p", ".", "l", "o", "g">>

SpecShutdown == InitShutdown /\ [][NextShutdown]_vars

\* The Start goroutine and the sweeper goroutine, interleaved, in a session
\* that mirrors to a file only, the clock standing still
NextPollSweep ==
    \/ NextPoll
    \/ CleanBegin
    \/ CleanVisit
    \/ CleanEnd

InitPollSweep ==
    /\ Init /\ FilePortal /\ ~ConsolePortal /\ TailBytes = 0
    /\ Lifetime = 1 /\ cwdIsDir /\ fs = FewFiles(filename)
    /\ filename = <<"a", "p", "p", ".", "l", "o", "g">>

SpecPollSweep == InitPollSweep /\ [][NextPollSweep]_vars

\* The sweeper goroutine and the clock, over the files found at startup
NextSweep ==
    \/ CleanBegin
    \/ CleanVisit
    \/ CleanEnd
    \/ AdvanceTime

InitSweep == Init /\ FilePortal /\ TailBytes = 0 /\ ManyFiles

SpecSweep == InitSweep /\ [][NextSweep]_vars

\* ------------------------------------------------------------------------
\* Properties of the poll loop (SpecPoll)
\* ------------------------------------------------------------------------
SteadyTick == tk.kind = "steady"

\* C1 (fails): after an initial fetch whose probe returned S > 0 with
\* S >= Tail and whose ranged read succeeded, and before the first steady
\* tick, offset equals S.
C1_BaselineCommitted ==
    (tk.kind = "initial" /\ tk.done /\ tk.probeOK /\ tk.size > 0
       /\ tk.size >= TailBytes /\ tk.fetchOK)
    => offset = tk.size

\* C2: when the startup probe returns 0 or a size below Tail, initialFetch
\* issues no ranged read, writes to no sink and leaves offset 0, and offset
\* stays 0 until a steady tick observes a size above 0; the first steady tick
\* that does reads exactly [0, S') and, its read succeeding, ends with
\* offset = S'.
C2_InitialFetchSkipped ==
    /\ (tk.kind = "initial" /\ tk.probeOK /\ (tk.size = 0 \/ tk.size < TailBytes))
       => (tk.done /\ tk.reads = <<>> /\ ~tk.wrote /\ offset = 0 /\ ini = "skipped")
    /\ (ini = "skipped" /\ ~seenPos) => offset = 0
    /\ (ini = "skipped" /\ SteadyTick /\ tk.firstPos)
       => /\ tk.reads = <<(<<0, tk.size>>)>>
          /\ (tk.done /\ tk.fetchOK) => offset = tk.size

C2_Witness ==
    /\ ini = "skipped" /\ SteadyTick /\ tk.firstPos /\ tk.done /\ tk.fetchOK
    /\ tk.size > 0 /\ offset = tk.size /\ TailBytes > 0

\* C3: a steady tick whose probe returns S above the offset issues exactly
\* one ranged read, of [offset, S), and no rotation; it ends with offset = S
\* if the read succeeded and with the offset it started with if the read
\* failed; every ranged read of a steady tick starts at the offset the tick
\* before it ended with.
C3_FetchCommit ==
    /\ (SteadyTick /\ tk.probeOK /\ tk.size > tk.off0)
       => /\ tk.reads = <<(<<tk.off0, tk.size>>)>>
          /\ tk.rots = 0
          /\ offset = IF tk.done /\ tk.fetchOK THEN tk.size ELSE tk.off0
          /\ ~tk.done => (pc = "fetch" /\ req = tk.reads[1])
    /\ (SteadyTick /\ tk.reads # <<>>) => tk.reads[1][1] = prev.offEnd

C3_Witness ==
    /\ SteadyTick /\ tk.done /\ tk.probeOK /\ tk.size > tk.off0 /\ tk.off0 > 0
    /\ ~tk.fetchOK /\ offset = tk.off0

\* C4: a steady tick whose probe returns S below the offset issues no ranged
\* read, calls RotateFile exactly once and ends with offset = 0, whether
\* RotateFile returned an error or not.
C4_RotationTick ==
    (SteadyTick /\ tk.probeOK /\ tk.size < tk.off0)
    => /\ tk.reads = <<>>
       /\ tk.rots <= 1
       /\ tk.done => (tk.rots = 1 /\ offset = 0)
       /\ ~tk.done => pc \in {"rot_sync", "rot_rename", "rot_open", "rot_ret"}

C4_Witness ==
    /\ SteadyTick /\ tk.done /\ tk.probeOK /\ tk.size < tk.off0 /\ tk.off0 > 0
    /\ tk.rotFailed /\ tk.rots = 1 /\ offset = 0

NoopTick ==
    (SteadyTick /\ tk.probeOK /\ tk.size = tk.off0)
    => /\ tk.done /\ tk.reads = <<>> /\ tk.rots = 0
       /\ offset = tk.off0 /\ file = tk.file0 /\ writer = tk.writer0

ConsecutiveSameSize ==
    /\ SteadyTick /\ tk.probeOK
    /\ prev.kind = "steady" /\ prev.probeOK /\ prev.size = tk.size

\* C5 as stated (fails): a steady tick whose probe returns the offset issues
\* no ranged read, calls no RotateFile and leaves offset, file and writer
\* alone; and of two consecutive steady ticks that probe the same size the
\* second issues no ranged read.  It is stated here for the runs the claim
\* is kindest to, those where the read of the first tick, if any, succeeded.
C5_Original ==
    /\ NoopTick
    /\ (ConsecutiveSameSize /\ ~prev.readFailed) => tk.reads = <<>>

\* C5 (amended): a steady tick whose probe returns the offset issues no
\* ranged read, calls no RotateFile and leaves offset, file and writer alone;
\* and of two consecutive steady ticks that probe the same size the second
\* issues no ranged read, provided the first ended with offset at that size.
C5_NoopTick ==
    /\ NoopTick
    /\ (ConsecutiveSameSize /\ prev.offEnd = tk.size)
       => (tk.done /\ tk.reads = <<>> /\ tk.rots = 0)

C5_Witness ==
    /\ ConsecutiveSameSize /\ prev.offEnd = tk.size /\ tk.size > 0
    /\ tk.done /\ offset = tk.size

\* C6: a steady tick whose probe fails ends at once: it issues no ranged
\* read, calls no RotateFile, leaves the offset alone, and the loop waits for
\* the next fire of the ticker.
C6_ProbeFailureSkips ==
    (SteadyTick /\ ~tk.probeOK)
    => (tk.done /\ tk.reads = <<>> /\ tk.rots = 0 /\ offset = tk.off0 /\ pc = "wait")

C6_Witness == SteadyTick /\ ~tk.probeOK /\ tk.done /\ offset > 0 /\ pc = "wait"

\* C7: offset is never negative, and every step either leaves it alone,
\* raises it to the size just probed by the steady tick under way, or resets
\* it to 0 at the end of a tick that probed a size below it and called
\* RotateFile; so it never falls to a value other than 0.
C7_OffsetGenerations ==
    /\ [](offset >= 0)
    /\ [][ \/ offset' = offset
           \/ /\ offset' > offset
              /\ SteadyTick /\ tk.probeOK /\ offset' = tk.size /\ offset' = currSize
           \/ /\ offset' = 0
              /\ SteadyTick /\ tk.probeOK /\ tk.size < offset /\ tk.rots = 1 ]_vars

C7_Witness ==
    /\ SteadyTick /\ tk.done /\ tk.probeOK /\ tk.off0 = 0 /\ offset > 0
    /\ prev.kind = "steady" /\ prev.probeOK /\ prev.size > 0 /\ prev.offEnd = 0
    /\ nRot > 0

\* ------------------------------------------------------------------------
\* Properties of RotateFile's archive names (SpecRotate)
\* ------------------------------------------------------------------------
DotCount(fn) == Cardinality({i \in 1..Len(fn) : fn[i] = "."})

\* the prefix the naming rule asks for
ExpectedPrefix(fn) ==
    IF DotCount(fn) = 1
    THEN SubSeq(fn, 1, (CHOOSE i \in 1..Len(fn) : fn[i] = ".") - 1)
    ELSE fn

\* C8: the last rename of RotateFile, made at instant T, took the live file
\* to <prefix>-<T>.log in Dir, where <prefix> is the live filename up to its
\* dot if it has exactly one dot and the whole live filename otherwise, and
\* <T> is 23 characters wide and reads back as T to the millisecond.
C8_ArchiveNaming ==
    lastRename.to # <<>>
    => LET to == lastRename.to
           p  == ExpectedPrefix(filename)
           ts == SubSeq(to, Len(p) + 2, Len(to) - Len(DotLog))
       IN  /\ lastRename.from = filename
           /\ Len(to) = Len(p) + 1 + 23 + Len(DotLog)
           /\ SubSeq(to, 1, Len(p)) = p
           /\ to[Len(p) + 1] = "-"
           /\ HasSuffix(to, DotLog)
           /\ ParseTime(ts) = [ok |-> TRUE, t |-> lastRename.at]
           /\ pc = "rot_open"
              => /\ LivePath = {}
                 /\ [dir |-> "Dir", name |-> to, ino |-> fds[file].ino] \in fs
                 /\ lastRename.at = now

C8_Witness ==
    /\ lastRename.to # <<>> /\ DotCount(filename) = 2 /\ lastRename.at > 1
    /\ pc = "rot_open"

\* C19 (fails): the name the last rename of RotateFile gave the archive, at
\* instant T, is read by Clean's match as an archive stamped T: with a
\* Lifetime of one day match accepts it one day after T and not a millisecond
\* earlier, whatever the live filename.
C19_ArchiveRoundTrip ==
    lastRename.to # <<>>
    => /\ match(lastRename.to, lastRename.at + DayMs, 1)
       /\ ~match(lastRename.to, lastRename.at + DayMs - 1, 1)

\* ------------------------------------------------------------------------
\* Properties of the sweeper (SpecSweep)
\* ------------------------------------------------------------------------
\* name reads <prefix>-<timestamp>.log, for some prefix, with a timestamp that
\* lies lifetime days or more before the instant t
IsExpiredArchive(name, t, lifetime) ==
    \E i \in 1..Len(name) :
        /\ name[i] = "-"
        /\ HasSuffix(SubSeq(name, i + 1, Len(name)), DotLog)
        /\ LET ts == ParseTime(SubSeq(name, i + 1, Len(name) - Len(DotLog)))
           IN  ts.ok /\ t - ts.t >= lifetime * DayMs

\* C9: the live file is never removed; whatever disappears from the files
\* found at startup was removed by Clean; and every file Clean removes has a
\* name other than the live filename that reads <prefix>-<timestamp>.log
\* with a timestamp Lifetime days or more before the instant of the removal.
C9_SweeperSafety ==
    /\ [dir |-> "Dir", name |-> filename, ino |-> 1] \in fs
    /\ \A e \in InitialFiles(filename, cwdIsDir) \ fs :
          \E r \in cl.removed : r.dir = e.dir /\ r.name = e.name
    /\ \A r \in cl.removed :
          /\ r.name # filename
          /\ IsExpiredArchive(r.name, r.at, Lifetime)

C9_Witness ==
    /\ cl.done /\ ~cl.err /\ Lifetime = 1 /\ cl.removed # {}
    /\ [dir |-> "Dir", name |-> ArchivedFilename(filename, 0 - 1), ino |-> 3] \in fs
    /\ now - (0 - 1) < Lifetime * DayMs

\* C10 (fails): when a Clean run is over, every file it listed directly in
\* Dir, other than the live file, whose name reads <prefix>-<timestamp>.log
\* with a timestamp Lifetime days or more before the start of the run is
\* gone from Dir, unless os.Remove was refused on that very file.
C10_SweeperComplete ==
    cl.done
    => \A n \in cl.listed :
          (/\ n # filename
           /\ IsExpiredArchive(n, cl.t0, Lifetime)
           /\ [dir |-> "Dir", name |-> n] \notin cl.refused)
          => ~\E e \in fs : e.dir = "Dir" /\ e.name = n

\* ------------------------------------------------------------------------
\* Properties of the ranged read (SpecPoll)
\* ------------------------------------------------------------------------
ReadInFlight == pc \in {"initfetch", "fetch"}

ReadReturnedNil == tk.reads # <<>> /\ tk.done /\ tk.fetchOK

\* a ranged read of [S1, S2) with S1 < S2 carries the header S1..S2-1, which
\* declares S2 - S1 bytes
DeclaresRange ==
    (tk.reads # <<>> /\ tk.reads[1][1] < tk.reads[1][2])
    => /\ hdr = <<tk.reads[1][1], tk.reads[1][2] - 1>>
       /\ hdr[2] - hdr[1] + 1 = tk.reads[1][2] - tk.reads[1][1]
       /\ ReadInFlight => req = tk.reads[1]

\* C11 as stated (fails): a ranged read of [S1, S2) with S1 < S2 declares the
\* inclusive range S1..S2-1, and when FetchIncrContent returns nil the sinks
\* have received exactly S2 - S1 bytes from it.
C11_Original ==
    /\ DeclaresRange
    /\ ReadReturnedNil => tk.got = tk.reads[1][2] - tk.reads[1][1]

\* C11 (amended): a ranged read of [S1, S2) with S1 < S2 declares the
\* inclusive range S1..S2-1, and when FetchIncrContent returns nil every sink
\* has received the body of the 206 response, which is at least one byte and
\* at most S2 - S1 bytes long.
C11_RangedRead ==
    /\ DeclaresRange
    /\ ReadReturnedNil
       => /\ tk.wrote
          /\ tk.got >= 1
          /\ tk.got <= tk.reads[1][2] - tk.reads[1][1]

C11_Witness ==
    /\ SteadyTick /\ ReadReturnedNil /\ tk.reads[1] = <<0, 2>> /\ hdr = <<0, 1>>
    /\ tk.got = 1 /\ offset = 2

\* ------------------------------------------------------------------------
\* Properties of the ticker (SpecPoll)
\* ------------------------------------------------------------------------
\* the poll loop has at most one ranged read in flight, the only one of the
\* tick (or initial fetch) under way, and a tick begins, with its probe, only
\* when the tick before it is over
OneRequestInFlight ==
    /\ Len(tk.reads) <= 1
    /\ ReadInFlight => (~tk.done /\ tk.reads = <<req>>)
    /\ tk.done => pc = "wait"
    /\ pc = "wait" => (tk.done \/ tk.kind = "none")

\* C17 as stated (fails): at most one request of the poll loop is in flight,
\* and a fire of the ticker that occurs while a tick or the initial fetch is
\* being processed is discarded: the channel holds no fire then, and none
\* when the processing ends.
C17_Original ==
    /\ OneRequestInFlight
    /\ pc # "wait" => ~tickPending

\* C17 (amended): at most one request of the poll loop is in flight; of the
\* fires that occur from the start of one tick to the start of the next the
\* channel keeps at most one and the others are lost, so a tick (or the
\* initial fetch), however slow, is followed by at most one deferred tick.
C17_TickerKeepsOne ==
    /\ OneRequestInFlight
    /\ kept <= 1
    /\ tickPending <=> kept = 1

C17_Witness == ReadInFlight /\ SteadyTick /\ tickPending /\ kept = 1 /\ offset > 0

\* ------------------------------------------------------------------------
\* Properties of the bytes asked for (SpecPoll)
\* ------------------------------------------------------------------------
\* C20 (fails): every ranged read, of the initial fetch or of a steady tick,
\* whatever Tail and the probed size, has 0 <= start < end, so the last byte
\* of its Range header is not below the first.
C20_RangeWellFormed ==
    \A i \in 1..Len(tk.reads) :
        /\ 0 <= tk.reads[i][1]
        /\ tk.reads[i][1] < tk.reads[i][2]
        /\ ReadInFlight => hdr[1] <= hdr[2]

\* C18 (fails): as long as no probe and no ranged read has failed and no
\* probe has returned less than the probe before it, no byte position has
\* been asked for, and streamed to the sinks, by two ranged reads, of the
\* initial fetch and the steady ticks together.
C18_NoDuplication == (run.clean /\ tk.done) => ~run.dup

\* ------------------------------------------------------------------------
\* Properties of RotateFile's failures (SpecPoll)
\* ------------------------------------------------------------------------
\* p.file is an open handle on the live path and the writer's only file sink
LiveHandleOpen ==
    /\ file # 0
    /\ fds[file].open
    /\ [dir |-> "Dir", name |-> filename, ino |-> fds[file].ino] \in fs
    /\ \E i \in 1..Len(writer) : writer[i] = FileSink(file)
    /\ \A i \in 1..Len(writer) : ~writer[i].console => writer[i] = FileSink(file)

\* C13 (fails): in a session that mirrors to a file, when RotateFile returns
\* to the poll loop, with nil or after its Sync, Close or Rename failed,
\* p.file is an open handle on the live path and the writer writes to that
\* handle and to no closed one.
C13_RotateLeavesLiveOpen ==
    (FilePortal /\ pc = "rot_ret" /\ tk.rotAt \in {"ok", "sync", "close", "rename"})
    => LiveHandleOpen

\* C14 (fails): once a RotateFile called by the loop has returned an error,
\* the loop still waits for the ticker after every tick, and the ranged read
\* of a later tick that observed S > offset can complete, leaving offset = S,
\* when transport, status and the streaming of the body do not fail.
C14_LoopRecovers ==
    run.rotFailed
    => /\ (SteadyTick /\ tk.done) => pc = "wait"
       /\ (SteadyTick /\ pc = "fetch")
          => \E res \in FetchIncrContent(req[1], req[2]) :
                res.ok /\ OffsetAfterFetch(res.ok) = tk.size

\* ------------------------------------------------------------------------
\* Properties of shutdown (SpecShutdown)
\* ------------------------------------------------------------------------
\* C12 (fails): no two renames of RotateFile, by the poll loop or by
\* Finalize, have the same archive path as their target, and every archive a
\* rename of RotateFile has written is still in Dir, under its name, the file
\* it was when it was written.
C12_ArchivesUniqueImmutable ==
    /\ \A i, j \in 1..Len(renames) : i # j => renames[i].to # renames[j].to
    /\ \A i \in 1..Len(renames) :
          [dir |-> "Dir", name |-> renames[i].to, ino |-> renames[i].ino] \in fs

\* C15 (fails): when Finalize has returned and no tick is under way, the
\* ticker is stopped and, in a session that mirrors to a file, the handle
\* p.file names is closed.
C15_ShutdownClosesLive ==
    (fpc = "done" /\ pc = "wait" /\ tk.done)
    => /\ stopped
       /\ FilePortal => ~fds[file].open

\* ------------------------------------------------------------------------
\* Properties of the sweeper beside the poll loop (SpecPollSweep)
\* ------------------------------------------------------------------------
SweeperStep == spc' # spc \/ queue' # queue \/ sweeps' # sweeps \/ cl' # cl

\* C16: no step of the sweeper, in a Clean run that ends well or in one that
\* fails, changes offset, the live filename, p.file, the handles, the writer,
\* the live file in Dir, the position of the poll loop or its ticker; and
\* after every Clean run, failed or not, the sweeper goroutine waits for its
\* next fire.
C16_SweeperIsolated ==
    /\ [](cl.done => spc = "idle")
    /\ [][SweeperStep => /\ UNCHANGED <<offset, filename, file, fds, writer>>
                         /\ UNCHANGED <<pc, tickPending, stopped, currSize, req>>
                         /\ LivePath' = LivePath]_vars

C16_Witness ==
    /\ cl.done /\ cl.err /\ cl.errs = 1 /\ spc = "idle"
    /\ SteadyTick /\ pc = "rot_open" /\ tk.off0 > 0 /\ tickPending /\ LivePath = {}

====
